---- MODULE Spec2Model ----
(***************************************************************************)
(* A model of the sl_string library (src/src/sl_string.c): a dynamic       *)
(* string stored as one allocation holding a header (magic, hash, len,     *)
(* cap) followed by the data bytes, handed to callers as a pointer to the  *)
(* data.  The state is the heap, the caller's handle variables and the     *)
(* record of the last library call.                                        *)
(***************************************************************************)
EXTENDS Integers, Sequences, FiniteSets, TLC

(***************************************************************************)
(* Bounds of the model.                                                    *)
(***************************************************************************)
\* width of size_t in bits (scaled down); size arithmetic is modulo 2^SizeBits
SizeBits == 3
\* longest C string the caller holds in its own memory under Spec
MaxCStr == 1
\* data bytes the allocator can hand out in total under Spec
HeapBytes == 4

SIZE_MOD == 2 ^ SizeBits
SIZE_MAX == SIZE_MOD - 1

(***************************************************************************)
(* Program constants.                                                      *)
(***************************************************************************)
SL_MAGIC == 1397508418
TOMBSTONE == 0
NULL == 0

SL_OK == 0
SL_ERR_ALLOC == 1
SL_ERR_INVALID == 2
SL_ERR_NULL == 3

\* the zero byte that ends a C string, and the other bytes the model uses
NUL == 0
Chars == {97, 98}

(***************************************************************************)
(* uint64_t arithmetic.  A 64-bit value is a sequence of 8 limbs of 8      *)
(* bits, least significant first; every operation is modulo 2^64.          *)
(***************************************************************************)
LimbBits == 8
NLimbs == 8
LimbBase == 2 ^ LimbBits

U64(n) == << n >> \o [k \in 1..(NLimbs - 1) |-> 0]

RECURSIVE XorBits(_, _, _)
XorBits(a, b, n) ==
  IF n = 0 THEN 0
  ELSE (((a % 2) + (b % 2)) % 2) + 2 * XorBits(a \div 2, b \div 2, n - 1)

\* hash ^= byte : the byte only reaches the low limb
Xor64Byte(x, byte) == [x EXCEPT ![1] = XorBits(x[1], byte, LimbBits)]

RECURSIVE DotSum(_, _, _, _)
DotSum(x, y, k, i) ==
  IF i > k THEN 0 ELSE x[i] * y[k + 1 - i] + DotSum(x, y, k, i + 1)

RECURSIVE MulLimbs(_, _, _, _)
MulLimbs(x, y, k, carry) ==
  IF k > NLimbs THEN << >>
  ELSE LET s == carry + DotSum(x, y, k, 1)
       IN  << s % LimbBase >> \o MulLimbs(x, y, k + 1, s \div LimbBase)

\* x * y + c modulo 2^64 (c a small natural)
MulAdd64(x, y, c) == MulLimbs(x, y, 1, c)
Mul64(x, y) == MulAdd64(x, y, 0)

\* the value of a decimal literal, given as its groups of six digits
RECURSIVE FromDecimal(_)
FromDecimal(ds) ==
  IF ds = << >> THEN U64(0)
  ELSE MulAdd64(FromDecimal(SubSeq(ds, 1, Len(ds) - 1)), U64(10 ^ 6), ds[Len(ds)])

\* 1099511628211ULL = 0x00000100000001B3, 14695981039346656037ULL =
\* 0xCBF29CE484222325, as limbs; LiteralsAgree ties them to the decimal literals
FNV_PRIME == <<179, 1, 0, 0, 0, 1, 0, 0>>
FNV_OFFSET == <<37, 35, 34, 132, 228, 156, 242, 203>>

LiteralsAgree ==
  /\ FNV_PRIME = FromDecimal(<<1, 099511, 628211>>)
  /\ FNV_OFFSET = FromDecimal(<<14, 695981, 039346, 656037>>)

(***************************************************************************)
(* sl__compute_hash: the loop over the first len bytes.  bytes is indexed  *)
(* from 1, so C's ptr[i] is bytes[i + 1].                                   *)
(***************************************************************************)
RECURSIVE HashLoop(_, _, _, _)
HashLoop(bytes, len, i, hash) ==
  IF i < len
  THEN HashLoop(bytes, len, i + 1, Mul64(Xor64Byte(hash, bytes[i + 1]), FNV_PRIME))
  ELSE hash

\* a mutant of sl__compute_hash: FNV-1, the product before the exclusive or
RECURSIVE HashLoop1(_, _, _, _)
HashLoop1(bytes, len, i, hash) ==
  IF i < len
  THEN HashLoop1(bytes, len, i + 1, Xor64Byte(Mul64(hash, FNV_PRIME), bytes[i + 1]))
  ELSE hash
sl__compute_hash_fnv1(bytes, len) == HashLoop1(bytes, len, 0, FNV_OFFSET)

sl__compute_hash(bytes, len) == HashLoop(bytes, len, 0, FNV_OFFSET)

(***************************************************************************)
(* Memory.  The library's allocations live at HeapAddr; ForeignAddr is     *)
(* caller-owned memory the library never handed out.  A block is the       *)
(* header fields followed by room data bytes (data[k] is C's data[k-1]).   *)
(***************************************************************************)
HeapAddr == {1, 2}
ForeignAddr == {3}
\* the caller's handle variables; TmpSlot is a variable that holds a pointer
\* into the caller's own memory, NoSlot the absent sl_str *
Slots == {"s", "t"}
TmpSlot == "tmp"
NoSlot == "null"
ArgSlots == Slots \cup {TmpSlot}

\* what a read of a uint32_t can give when the memory is not the library's
Tags == {SL_MAGIC, TOMBSTONE, SL_MAGIC + 1}
ForeignTags == Tags \ {SL_MAGIC}

Zero64 == U64(0)
FreeBlock ==
  [st |-> "free", magic |-> TOMBSTONE, hash |-> Zero64, len |-> 0, cap |-> 0,
   room |-> 0, data |-> << >>]

\* an absent (NULL) const char *
NullCStr == << >>

RECURSIVE Strings(_)
Strings(n) ==
  IF n = 0 THEN {<< >>}
  ELSE Strings(n - 1) \cup
       {Append(s, c) : s \in {t \in Strings(n - 1) : Len(t) = n - 1},
                       c \in Chars \cup {NUL}}

\* the caller's zero-terminated byte regions of at most n + 1 bytes; bytes may
\* follow the first zero byte
CStrRegions(n) == {Append(s, NUL) : s \in Strings(n)}

\* the regions made of one repeated byte, of every length n allows
Runs(n) == {[k \in 1..(m + 1) |-> IF k <= m THEN 97 ELSE NUL] : m \in 0..n}

Min(a, b) == IF a < b THEN a ELSE b

\* Under Spec the address space of SIZE_MOD bytes holds the caller's C string
\* and the allocation side by side.
MainEnv ==
  [room |-> Min(HeapBytes, SIZE_MOD - (MaxCStr + 1)), cstrs |-> CStrRegions(MaxCStr)]
\* Under SpecWide every length the size type can represent is allowed.
WideEnv == [room |-> SIZE_MAX, cstrs |-> Runs(SIZE_MAX - 1)]

VARIABLES heap, h, stale, env, corrupt, last
vars == <<heap, h, stale, env, corrupt, last>>

NoCall ==
  [op |-> "none", slot |-> NoSlot, str |-> NULL, str2 |-> NULL, init |-> NullCStr,
   ret |-> NULL, eq |-> FALSE, err |-> SL_OK, old |-> FreeBlock, live |-> FALSE,
   live2 |-> FALSE, reads |-> {}, released |-> FALSE, doubleRelease |-> FALSE,
   tagAtRelease |-> SL_MAGIC, copied |-> FALSE, whi |-> 0, room |-> 0,
   wasStale |-> FALSE, magic |-> TOMBSTONE, magic2 |-> TOMBSTONE]

\* the caller is between two calls
Idle == ~corrupt /\ last.op = "none"

Live(p) == p \in HeapAddr /\ heap[p].st = "live"

\* the pointer a variable holds, and the assignment to it
Deref(s) == IF s = TmpSlot THEN CHOOSE p \in ForeignAddr : TRUE ELSE h[s]
Assign(s, p) == IF s = TmpSlot THEN h ELSE [h EXCEPT ![s] = p]
\* the other handles that hold p, which dangle once p is released
Holders(s, p) == {t \in Slots \ {s} : h[t] = p}
Snapshot(p) == IF Live(p) THEN heap[p] ELSE FreeBlock

\* the values a read of hdr->magic behind p can give: the stored tag of a live
\* block, the caller's bytes before foreign memory, anything for freed memory
MagicReads(p) ==
  IF p = NULL THEN {TOMBSTONE}
  ELSE IF p \in ForeignAddr THEN ForeignTags
  ELSE IF heap[p].st = "live" THEN {heap[p].magic}
  ELSE Tags

(***************************************************************************)
(* The library's helpers.                                                  *)
(***************************************************************************)
\* a mutant of strlen: the size of the region instead of its first zero byte
strlen_region(s) == Len(s) - 1

\* strlen: the index of the first zero byte
strlen(s) ==
  (CHOOSE i \in 1..Len(s) : s[i] = NUL /\ \A j \in 1..(i - 1) : s[j] # NUL) - 1

\* a mutant of sl__validate: the absent reference is not told apart
sl__validate_nonull(str, magic) ==
  IF magic # SL_MAGIC THEN SL_ERR_INVALID ELSE SL_OK

\* sl__validate, with magic the value read from hdr->magic (not read when str
\* is absent)
sl__validate(str, magic) ==
  IF str = NULL THEN SL_ERR_NULL
  ELSE IF magic # SL_MAGIC THEN SL_ERR_INVALID
  ELSE SL_OK

\* the data bytes of the allocations in use, those at the addresses in but aside
RECURSIVE SumRoom(_)
SumRoom(ps) ==
  IF ps = {} THEN 0
  ELSE LET p == CHOOSE q \in ps : TRUE IN heap[p].room + SumRoom(ps \ {p})
InUse(but) == SumRoom(HeapAddr \ but)

\* malloc of a block with size data bytes: NULL, or any address not in use
Malloc(size) ==
  {NULL} \cup {p \in HeapAddr : heap[p].st = "free" /\ InUse({}) + size <= env.room}

\* realloc of the block at p to size data bytes: NULL (the block stays), the
\* same address, or any address not in use (the block moves)
Realloc(p, size) ==
  {NULL} \cup {q \in HeapAddr : IF q = p THEN InUse({p}) + size <= env.room
                              ELSE heap[q].st = "free" /\ InUse({}) + size <= env.room}

\* the block after realloc: the old bytes up to the new size, the rest (fill)
\* indeterminate
Resized(b, size, fill) ==
  [b EXCEPT !.room = size,
            !.data = [k \in 1..size |-> IF k <= Len(b.data) THEN b.data[k] ELSE fill]]

(***************************************************************************)
(* sl_from_cstr                                                            *)
(***************************************************************************)
\* the header and data written into a fresh allocation (lines 118-134)
FromCstrBlock(init) ==
  LET len == strlen(init)
      cap == (len + 1) % SIZE_MOD
      data == SubSeq(init, 1, len + 1)
  IN  [st |-> "live", magic |-> SL_MAGIC, hash |-> sl__compute_hash(data, len),
       len |-> len, cap |-> cap, room |-> cap, data |-> data]

\* s = sl_from_cstr(init, &err)
SlFromCstr ==
  /\ Idle
  /\ \E s \in Slots, init \in env.cstrs \cup {NullCStr} :
    /\ IF init = NullCStr
       THEN /\ heap' = heap
            /\ h' = [h EXCEPT ![s] = NULL]
            /\ last' = [NoCall EXCEPT !.op = "sl_from_cstr", !.slot = s, !.init = init, !.ret = NULL,
                            !.err = SL_ERR_NULL]
       ELSE LET b == FromCstrBlock(init)
            IN  \E p \in Malloc(b.cap) :
                  IF p = NULL
                  THEN /\ heap' = heap
                       /\ h' = [h EXCEPT ![s] = NULL]
                       /\ last' = [NoCall EXCEPT !.op = "sl_from_cstr", !.slot = s, !.init = init,
                                       !.ret = NULL, !.err = SL_ERR_ALLOC]
                  ELSE /\ heap' = [heap EXCEPT ![p] = b]
                       /\ h' = [h EXCEPT ![s] = p]
                       /\ last' = [NoCall EXCEPT !.op = "sl_from_cstr", !.slot = s, !.init = init,
                                       !.ret = p, !.err = SL_OK]
    /\ stale' = stale \ {s}
    /\ UNCHANGED <<env, corrupt>>

(***************************************************************************)
(* sl_free                                                                 *)
(***************************************************************************)
\* hdr->magic = 0, before free(hdr)
Invalidated(b) == [b EXCEPT !.magic = TOMBSTONE]

\* sl_free(sp, &err), sp the address of one of the caller's handles or NULL
SlFree ==
  /\ Idle
  /\ \E sp \in ArgSlots \cup {NoSlot} :
    IF sp = NoSlot \/ Deref(sp) = NULL
    THEN /\ last' = [NoCall EXCEPT !.op = "sl_free", !.slot = sp, !.err = SL_OK]
         /\ UNCHANGED <<heap, h, stale, env, corrupt>>
    ELSE LET str == Deref(sp) IN
         \E m \in MagicReads(str) :
           LET e == sl__validate(str, m) IN
           IF e # SL_OK
           THEN /\ last' = [NoCall EXCEPT !.op = "sl_free", !.slot = sp, !.str = str,
                                !.err = e, !.live = Live(str), !.old = Snapshot(str),
                                !.reads = {<<1, "magic">>}, !.magic = m,
                                !.wasStale = sp \in stale]
                /\ UNCHANGED <<heap, h, stale, env, corrupt>>
           ELSE /\ heap' = IF Live(str) THEN [heap EXCEPT ![str] = FreeBlock] ELSE heap
                /\ h' = Assign(sp, NULL)
                /\ stale' = (stale \ {sp}) \cup Holders(sp, str)
                /\ last' = [NoCall EXCEPT !.op = "sl_free", !.slot = sp, !.str = str,
                                !.err = SL_OK, !.live = Live(str),
                                !.old = Snapshot(str), !.reads = {<<1, "magic">>},
                                !.released = TRUE, !.doubleRelease = ~Live(str),
                                !.magic = m, !.wasStale = sp \in stale,
                                !.tagAtRelease = Invalidated(Snapshot(str)).magic]
                /\ UNCHANGED <<env, corrupt>>

(***************************************************************************)
(* sl_len, sl_cap                                                          *)
(***************************************************************************)
\* the values a read of a size_t field of the block behind p can give
SizeReads(p, field) == IF Live(p) THEN {heap[p][field]} ELSE 0..SIZE_MAX

\* sl_len(str, &err), str any pointer the caller holds
SlLen ==
  /\ Idle
  /\ \E str \in {Deref(s) : s \in ArgSlots} :
       \E m \in MagicReads(str) :
         LET e == sl__validate(str, m)
             call == [NoCall EXCEPT !.op = "sl_len", !.str = str, !.magic = m,
                                    !.live = Live(str), !.old = Snapshot(str)]
         IN
         /\ IF e # SL_OK
            THEN last' = [call EXCEPT !.ret = SIZE_MAX, !.err = e]
            ELSE \E v \in SizeReads(str, "len") :
                   last' = [call EXCEPT !.ret = v, !.err = SL_OK]
         /\ UNCHANGED <<heap, h, stale, env, corrupt>>

\* sl_cap(str, &err), str any pointer the caller holds
SlCap ==
  /\ Idle
  /\ \E str \in {Deref(s) : s \in ArgSlots} :
       \E m \in MagicReads(str) :
         LET e == sl__validate(str, m)
             call == [NoCall EXCEPT !.op = "sl_cap", !.str = str, !.magic = m,
                                    !.live = Live(str), !.old = Snapshot(str)]
         IN
         /\ IF e # SL_OK
            THEN last' = [call EXCEPT !.ret = SIZE_MAX, !.err = e]
            ELSE \E v \in SizeReads(str, "cap") :
                   last' = [call EXCEPT !.ret = v, !.err = SL_OK]
         /\ UNCHANGED <<heap, h, stale, env, corrupt>>

(***************************************************************************)
(* sl_append_cstr                                                          *)
(***************************************************************************)
\* a mutant of AppendEarlyErr: the receiver is validated before the suffix
AppendEarlyErr_swapped(initAbsent, e) ==
  IF e # SL_OK THEN e ELSE IF initAbsent THEN SL_ERR_NULL ELSE SL_OK

\* the error of the early returns (lines 229-240): the absent suffix first,
\* then the receiver's validation
AppendEarlyErr(initAbsent, e) == IF initAbsent THEN SL_ERR_NULL ELSE e

\* size_t new_len = hdr->len + init_len
NewLen(len, init_len) == (len + init_len) % SIZE_MOD

\* a mutant of NewCap: growth with slack
NewCap_slack(new_len) == (new_len + 2) % SIZE_MOD

\* size_t new_cap = new_len + 1
NewCap(new_len) == (new_len + 1) % SIZE_MOD

\* a mutant of AppendCopy: the suffix is copied without its terminator
AppendCopy_noterm(data, len, init, init_len) ==
  [k \in 1..Len(data) |->
     IF len < k /\ k <= len + init_len THEN init[k - len] ELSE data[k]]

\* memcpy(hdr->data + hdr->len, init, init_len + 1), all of it inside data
AppendCopy(data, len, init, init_len) ==
  [k \in 1..Len(data) |->
     IF len < k /\ k <= len + init_len + 1 THEN init[k - len] ELSE data[k]]

\* s = sl_append_cstr(s, init, &err)
SlAppendCstr ==
  /\ Idle
  /\ \E s \in ArgSlots, init \in env.cstrs \cup {NullCStr} :
    LET str == Deref(s) IN
    \E m \in MagicReads(str) :
      LET e == AppendEarlyErr(init = NullCStr, sl__validate(str, m))
          call == [NoCall EXCEPT !.op = "sl_append_cstr", !.str = str, !.init = init,
                                  !.live = Live(str), !.old = Snapshot(str),
                                  !.magic = m]
      IN
      IF e # SL_OK
      THEN /\ last' = [call EXCEPT !.ret = str, !.err = e]
           /\ UNCHANGED <<heap, h, stale, env, corrupt>>
      ELSE IF ~Live(str)
      THEN \* validation passed on freed memory: realloc and memcpy act on it
           /\ corrupt' = TRUE
           /\ last' = [call EXCEPT !.ret = str, !.err = SL_OK]
           /\ UNCHANGED <<heap, h, stale, env>>
      ELSE
        LET hdr == heap[str]
            init_len == strlen(init)
            new_len == NewLen(hdr.len, init_len)
            new_cap == NewCap(new_len)
            grow == new_cap > hdr.cap
        IN
        \E q \in (IF grow THEN Realloc(str, new_cap) ELSE {str}),
           fill \in (IF grow THEN Chars \cup {NUL} ELSE {NUL}) :
          IF q = NULL
          THEN /\ last' = [call EXCEPT !.ret = NULL, !.err = SL_ERR_ALLOC]
               /\ h' = Assign(s, NULL)
               /\ stale' = stale \ {s}
               /\ UNCHANGED <<heap, env, corrupt>>
          ELSE
            LET blk == IF grow THEN Resized(hdr, new_cap, fill) ELSE hdr
                \* the index (from 0) of the last byte memcpy writes
                whi == hdr.len + init_len
                moved == IF q = str THEN heap
                         ELSE [heap EXCEPT ![str] = FreeBlock, ![q] = blk]
                wr == [call EXCEPT !.copied = TRUE, !.whi = whi, !.room = blk.room,
                                       !.ret = q, !.err = SL_OK]
            IN
            IF whi >= blk.room
            THEN \* memcpy writes past the allocation
                 /\ corrupt' = TRUE
                 /\ heap' = [moved EXCEPT ![q] = blk]
                 /\ h' = Assign(s, q)
                 /\ stale' = (stale \ {s}) \cup
                             (IF q = str THEN {} ELSE Holders(s, str))
                 /\ last' = wr
                 /\ UNCHANGED <<env>>
            ELSE
              LET data == AppendCopy(blk.data, blk.len, init, init_len)
                  done == [blk EXCEPT !.data = data, !.len = new_len, !.cap = new_cap,
                                      !.hash = sl__compute_hash(data, new_len)]
              IN /\ heap' = [moved EXCEPT ![q] = done]
                 /\ h' = Assign(s, q)
                 /\ stale' = (stale \ {s}) \cup
                             (IF q = str THEN {} ELSE Holders(s, str))
                 /\ last' = wr
                 /\ UNCHANGED <<env, corrupt>>

(***************************************************************************)
(* sl_eq                                                                   *)
(***************************************************************************)
\* a mutant of EqErr: the second operand's failure is reported first
EqErr_second(e1, e2) == IF e2 # SL_OK THEN e2 ELSE e1

\* e1 != SL_OK ? e1 : e2
EqErr(e1, e2) == IF e1 # SL_OK THEN e1 ELSE e2

\* memcmp(a, b, n) == 0
MemEq(a, b, n) == \A k \in 1..n : a[k] = b[k]

\* a mutant of EqDecide: only the lengths are compared
EqDecide_len(samePtr, h1, h2) == samePtr \/ h1.len = h2.len

\* the result once both operands passed validation (lines 300-317)
EqDecide(samePtr, h1, h2) ==
  IF samePtr THEN TRUE
  ELSE IF h1.hash # h2.hash THEN FALSE
  ELSE IF h1.len # h2.len THEN FALSE
  ELSE MemEq(h1.data, h2.data, h1.len)

\* the fields of the operands the same path reads
EqReads(samePtr, h1, h2) ==
  IF samePtr THEN {}
  ELSE {<<1, "hash">>, <<2, "hash">>} \cup
       (IF h1.hash # h2.hash THEN {}
        ELSE {<<1, "len">>, <<2, "len">>} \cup
             (IF h1.len # h2.len THEN {} ELSE {<<1, "data">>, <<2, "data">>}))

MagicRead(k, str) == IF str = NULL THEN {} ELSE {<<k, "magic">>}

\* sl_eq(h[s1], h[s2], &err)
SlEq ==
  /\ Idle
  /\ \E str1 \in {Deref(s) : s \in ArgSlots}, str2 \in {Deref(s) : s \in ArgSlots} :
    \E m1 \in MagicReads(str1) :
      \E m2 \in (IF str1 = str2 THEN {m1} ELSE MagicReads(str2)) :
        LET e1 == sl__validate(str1, m1)
            e2 == sl__validate(str2, m2)
            call == [NoCall EXCEPT !.op = "sl_eq", !.str = str1, !.str2 = str2,
                                    !.live = Live(str1), !.live2 = Live(str2),
                                    !.magic = m1, !.magic2 = m2]
            seen == MagicRead(1, str1) \cup MagicRead(2, str2)
        IN
        /\ IF e1 # SL_OK \/ e2 # SL_OK
           THEN last' = [call EXCEPT !.eq = FALSE, !.err = EqErr(e1, e2),
                                     !.reads = seen]
           ELSE IF Live(str1) /\ Live(str2)
           THEN last' = [call EXCEPT !.eq = EqDecide(str1 = str2, heap[str1], heap[str2]),
                   !.err = SL_OK,
                   !.reads = seen \cup EqReads(str1 = str2, heap[str1], heap[str2])]
           ELSE \* an operand is freed memory that read as valid: what the
                \* comparison reads there is indeterminate
                \E r \in (IF str1 = str2 THEN {TRUE} ELSE BOOLEAN) :
                  last' = [call EXCEPT !.eq = r, !.err = SL_OK, !.reads = seen]
        /\ UNCHANGED <<heap, h, stale, env, corrupt>>

(***************************************************************************)
(* The caller: handles are plain pointers, so it can copy one.             *)
(***************************************************************************)
Copy ==
  /\ Idle
  /\ \E s \in Slots, t \in Slots :
    /\ s # t
    /\ h[s] # h[t]
    /\ h' = [h EXCEPT ![t] = h[s]]
    /\ stale' = IF s \in stale THEN stale \cup {t} ELSE stale \ {t}
    /\ UNCHANGED <<heap, env, corrupt, last>>

\* the caller has looked at the outcome of the call and goes on
Continue ==
  /\ ~corrupt
  /\ last.op # "none"
  /\ last' = NoCall
  /\ UNCHANGED <<heap, h, stale, env, corrupt>>

(***************************************************************************)
(* The specifications.                                                     *)
(***************************************************************************)
InitWith(e) ==
  /\ LiteralsAgree
  /\ heap = [p \in HeapAddr |-> FreeBlock]
  /\ h = [s \in Slots |-> NULL]
  /\ stale = {}
  /\ env = e
  /\ corrupt = FALSE
  /\ last = NoCall

Init == InitWith(MainEnv)
InitWide == InitWith(WideEnv)

\* A call is made when the outcome of the one before has been looked at; once
\* memory is corrupted nothing more is known of the program.
Next ==
  \/ SlFromCstr
  \/ SlFree
  \/ SlLen
  \/ SlCap
  \/ SlAppendCstr
  \/ SlEq
  \/ Copy
  \/ Continue

Spec == Init /\ [][Next]_vars
SpecWide == InitWide /\ [][Next]_vars

(***************************************************************************)
(* The claims.  last is the call just made; while it is set, heap and h    *)
(* are the memory and the handles as that call left them.                  *)
(***************************************************************************)
\* the index (from 0) of the first zero byte of a zero-terminated region
FirstZero(s) ==
  CHOOSE n \in 0..(Len(s) - 1) : s[n + 1] = NUL /\ \A k \in 1..n : s[k] # NUL

\* 64-bit FNV-1a of a byte sequence: the offset basis, then for each byte an
\* exclusive or into the low bits and a product with the prime, modulo 2^64
RECURSIVE FNV1a(_)
FNV1a(bytes) ==
  IF bytes = << >> THEN FNV_OFFSET
  ELSE Mul64(Xor64Byte(FNV1a(SubSeq(bytes, 1, Len(bytes) - 1)), bytes[Len(bytes)]),
             FNV_PRIME)

Content(b) == SubSeq(b.data, 1, b.len)

\* why a reference fails validation, from the pointer and the tag behind it
Classify(str, magic) ==
  IF str = NULL THEN SL_ERR_NULL
  ELSE IF magic # SL_MAGIC THEN SL_ERR_INVALID
  ELSE SL_OK

\* what C1 says of a non-absent input: a live buffer that holds the input up to
\* its first zero byte, and SL_OK
FromCstrSucceeded ==
  /\ last.err = SL_OK
  /\ Live(last.ret)
  /\ h[last.slot] = last.ret
  /\ LET b == heap[last.ret]
         n == FirstZero(last.init)
     IN  /\ b.magic = SL_MAGIC
         /\ b.len = n
         /\ b.cap = n + 1
         /\ b.room >= b.cap
         /\ \A k \in 1..n : b.data[k] = last.init[k]
         /\ b.data[n + 1] = NUL

FromCstrAbsent == last.ret = NULL /\ last.err = SL_ERR_NULL /\ h[last.slot] = NULL

\* C1 as stated: sl_from_cstr of every non-absent zero-terminated input gives
\* a live buffer with length = index of the first zero byte, capacity =
\* length + 1, the same bytes, a zero at index length, and SL_OK; the absent
\* input gives an absent reference and SL_ERR_NULL.
C1_FromCstrAlways ==
  last.op = "sl_from_cstr" =>
    IF last.init = NullCStr THEN FromCstrAbsent ELSE FromCstrSucceeded

\* C1 as amended: for a non-absent input sl_from_cstr either gives that live
\* buffer and SL_OK, or, when the allocation fails, gives an absent reference,
\* reports SL_ERR_ALLOC and leaves no buffer behind; the absent input gives an
\* absent reference and SL_ERR_NULL.
C1_FromCstr ==
  last.op = "sl_from_cstr" =>
    IF last.init = NullCStr THEN FromCstrAbsent
    ELSE \/ FromCstrSucceeded
         \/ last.ret = NULL /\ last.err = SL_ERR_ALLOC /\ h[last.slot] = NULL

\* a construction from a region with bytes after its first zero byte
C1_Witness ==
  /\ last.op = "sl_from_cstr"
  /\ last.err = SL_OK
  /\ Len(last.init) > heap[last.ret].len + 1

\* C2: a successful sl_append_cstr of a non-absent suffix b (a C string in the
\* caller's own memory, the empty one included) to a live buffer a leaves
\* content(a) followed by content(b), of length length(a) + length(b), with a
\* zero byte at index length; also when the buffer was appended to before.
C2_AppendConcat ==
  (last.op = "sl_append_cstr" /\ last.live /\ last.err = SL_OK) =>
    /\ Live(last.ret)
    /\ LET a == last.old
           n == FirstZero(last.init)
           b == heap[last.ret]
       IN  /\ b.len = a.len + n
           /\ Content(b) = Content(a) \o SubSeq(last.init, 1, n)
           /\ b.data[b.len + 1] = NUL

\* an append of a non-empty suffix to a buffer longer than any C string the
\* caller holds, so itself the result of an append
C2_Witness ==
  /\ last.op = "sl_append_cstr"
  /\ last.live
  /\ last.err = SL_OK
  /\ last.old.len > MaxCStr
  /\ FirstZero(last.init) > 0

\* C3: every live buffer has capacity >= length + 1 (and the capacity is
\* within its allocation), and right after a successful append the capacity is
\* length + 1 exactly, also for the empty suffix, when nothing is reallocated.
C3_Capacity ==
  /\ \A p \in HeapAddr :
       Live(p) => heap[p].cap >= heap[p].len + 1 /\ heap[p].cap <= heap[p].room
  /\ (last.op = "sl_append_cstr" /\ last.live /\ last.err = SL_OK) =>
       heap[last.ret].cap = heap[last.ret].len + 1

\* a successful append of the empty suffix to a non-empty buffer
C3_Witness ==
  /\ last.op = "sl_append_cstr"
  /\ last.live
  /\ last.err = SL_OK
  /\ FirstZero(last.init) = 0
  /\ last.old.len > 0
  /\ last.ret = last.str

\* C4: the stored hash of every live buffer is the 64-bit FNV-1a hash of its
\* first length bytes, and the hash of an empty buffer is the offset basis.
C4_Hash ==
  \A p \in HeapAddr :
    Live(p) =>
      /\ heap[p].hash = FNV1a(Content(heap[p]))
      /\ heap[p].len = 0 => heap[p].hash = <<37, 35, 34, 132, 228, 156, 242, 203>>

\* an append that changed the content, and with it the hash
C4_Witness ==
  /\ last.op = "sl_append_cstr"
  /\ last.live
  /\ last.err = SL_OK
  /\ heap[last.ret].len >= 2
  /\ heap[last.ret].hash # last.old.hash

C6_StaleFree ==
  last.op = "sl_free" =>
    /\ last.released => last.tagAtRelease = TOMBSTONE
    /\ ~last.doubleRelease
    /\ last.wasStale =>
         /\ last.err = SL_ERR_INVALID
         /\ h[last.slot] = last.str
         /\ ~last.released

\* C7: a failed sl_append_cstr leaves the receiver as it was: SL_ERR_NULL and
\* the reference given for an absent suffix; the receiver's classification
\* and the reference given when the receiver fails validation; SL_ERR_ALLOC
\* when the reallocation fails, the allocation still live and unchanged.
C7_AppendFailure ==
  (last.op = "sl_append_cstr" /\ last.err # SL_OK) =>
    /\ last.live => Live(last.str) /\ heap[last.str] = last.old
    /\ last.init = NullCStr => last.err = SL_ERR_NULL /\ last.ret = last.str
    /\ (last.init # NullCStr /\ Classify(last.str, last.magic) # SL_OK) =>
         last.err = Classify(last.str, last.magic) /\ last.ret = last.str
    /\ (last.init # NullCStr /\ Classify(last.str, last.magic) = SL_OK) =>
         last.err = SL_ERR_ALLOC /\ last.live

\* a reallocation that failed on a non-empty buffer
C7_Witness ==
  /\ last.op = "sl_append_cstr"
  /\ last.err = SL_ERR_ALLOC
  /\ last.old.len >= 1
  /\ heap[last.str] = last.old

\* C8: sl_len and sl_cap give the stored field and SL_OK for a live buffer,
\* never SIZE_MAX; SIZE_MAX and SL_ERR_NULL for the absent reference; SIZE_MAX
\* and SL_ERR_INVALID for a wrong tag; the handle a successful sl_free has
\* cleared is absent.
C8_Accessors ==
  /\ last.op \in {"sl_len", "sl_cap"} =>
       /\ last.str = NULL => last.ret = SIZE_MAX /\ last.err = SL_ERR_NULL
       /\ (last.str # NULL /\ last.magic # SL_MAGIC) =>
            last.ret = SIZE_MAX /\ last.err = SL_ERR_INVALID
       /\ last.live =>
            /\ last.err = SL_OK
            /\ last.ret = (IF last.op = "sl_len" THEN last.old.len ELSE last.old.cap)
            /\ last.ret # SIZE_MAX
  /\ (last.op = "sl_free" /\ last.released /\ last.slot \in Slots) =>
       h[last.slot] = NULL

\* the capacity of a live, non-empty buffer
C8_Witness ==
  /\ last.op = "sl_cap"
  /\ last.live
  /\ last.ret >= 2

\* C9: when an operand of sl_eq fails validation the result is false, the
\* error is the first operand's classification if it fails and the second's
\* otherwise, and no length, hash or content byte is read.
C9_EqInvalid ==
  LET c1 == Classify(last.str, last.magic)
      c2 == Classify(last.str2, last.magic2)
  IN  (last.op = "sl_eq" /\ (c1 # SL_OK \/ c2 # SL_OK)) =>
        /\ ~last.eq
        /\ last.err = (IF c1 # SL_OK THEN c1 ELSE c2)
        /\ \A r \in last.reads : r[2] = "magic"

\* both operands fail, for different reasons
C9_Witness ==
  /\ last.op = "sl_eq"
  /\ last.str # NULL
  /\ last.magic # SL_MAGIC
  /\ last.str2 = NULL
  /\ last.err = SL_ERR_INVALID

====
